---------------------------- MODULE Spec2Model ----------------------------
(***************************************************************************)
(* Authentication gateway of GM_Scan: local credentials, OTP password      *)
(* reset and the three OAuth2 login flows (Google, LinkedIn, Facebook),    *)
(* modelled from auth_routes.py, auth_utils.py and main.py.                *)
(*                                                                         *)
(* An absent value (Python None, a missing document field, a missing query *)
(* parameter) is the string NONE for string fields, 0 for ids and times,   *)
(* and the empty sequence for optional structures.                         *)
(***************************************************************************)
EXTENDS Integers, Sequences, FiniteSets, TLC

VARIABLES
    users,      \* users_collection: documents in insertion order
    session,    \* SessionMiddleware data of every caller session
    now,        \* datetime.utcnow(), in minutes
    resp,       \* the request handled last and its response
    otpIssued,  \* history: <<user id, code, time>> of each user's latest OTP issue
    nstarts,    \* number of start requests handled (bounded)
    inflight,   \* reset-password requests between their lookup and their update
    documents,  \* documents collection: documents in insertion order
    registered  \* history: <<email, password, id, token>> of each successful registration

vars == <<users, session, now, resp, otpIssued, nstarts, inflight, documents, registered>>

-----------------------------------------------------------------------------
(* Bounds of the model *)

MaxUsers == 2
MaxStarts == 2
MaxTime == 30
MaxDocs == 2

(* Program constants *)

OTP_TTL == 15
TOKEN_TTL == 1440

-----------------------------------------------------------------------------
(* Input domains *)

NONE == "NONE"

Sessions == {"S1", "S2"}
Providers == {"google", "linkedin", "facebook"}
Emails == {"a@x.com", "b@x.com"}
Passwords == {"pw1", "pw2"}
WrongPasswords == {"bad"}
RandomPasswords == {"100000"}
OtpCodes == {"1000", "1001"}
States == {"s1", "S1"}
PresentedStates == States \cup {NONE}
Codes == {"c1"}
ProviderErrors == {"access_denied"}
GivenNames == {"Bea"}
FamilyNames == {"Lee"}
Mobiles == {"555"}
TickSteps == {15}
ResetPasswords == {"pw2", "pw3"}

ExchangeOutcomes == {"ok", "http_error", "no_token"}


RegisterNames == {"Ann"}

(* The userinfo answers a provider can give: an HTTP error, or a JSON body   *)
(* with or without an email.                                                *)
ProfilesOf(emails) ==
    {[http |-> "error", email |-> NONE, given_name |-> NONE, family_name |-> NONE]}
    \cup [http : {"ok"}, email : emails \cup {NONE},
          given_name : GivenNames, family_name : FamilyNames]

ProfileResponses == ProfilesOf(Emails)

(* The body of PUT /auth/profiles: UserCreate with every field optional.    *)
ProfilePatches ==
    [first_name : {NONE, "Ann"}, last_name : {NONE},
     email : Emails \cup {NONE}, mobile_number : Mobiles \cup {NONE}]

-----------------------------------------------------------------------------
(* auth_utils.py *)

PASSWORD_SALT == "default_salt"
SECRET_KEY == "SECRET_KEY"

\* SHA-256 of password + salt: injective on the modelled inputs.
hash_password(password) == <<"sha256", password, PASSWORD_SALT>>

\* A token is its payload with the HS256 signature of that payload under a
\* key: jwt.encode(payload, key, algorithm="HS256").
jwt_sign(payload, key) == <<"HS256", payload, key>>

jwt_encode(payload, key) == <<"jwt", payload, jwt_sign(payload, key)>>

\* expires_delta absent (None) is the empty sequence, else <<minutes>>.
NoDelta == <<>>

\* expire = datetime.utcnow() + expires_delta, one day by default.
expiry(expires_delta, t) ==
    t + (IF expires_delta = NoDelta THEN TOKEN_TTL ELSE expires_delta[1])

\* generate_access_token(user_data, expires_delta) at time t: the claims
\* with "exp" set to the expiry, signed with SECRET_KEY.
generate_access_token(user_data, expires_delta, t) ==
    jwt_encode(("exp" :> expiry(expires_delta, t)) @@ user_data, SECRET_KEY)

\* The claims the routes put into a token.
UserClaims(sub, email) == [sub |-> sub, email |-> email]

TOKEN_EXPIRED == "Token has expired"
INVALID_TOKEN == "Invalid token"

IsSigned(token, key) ==
    /\ Len(token) = 3
    /\ token[1] = "jwt"
    /\ token[3] = jwt_sign(token[2], key)

\* An expiry check that is never positive.
IsExpiredNever(payload, t) == FALSE

\* jwt.decode validates "exp" after the signature: a token is expired from
\* its expiry time on.
IsExpired(payload, t) == "exp" \in DOMAIN payload /\ payload["exp"] <= t

\* verify_access_token(token) at time t: the payload, or the ValueError the
\* function raises.
verify_access_token(token, t) ==
    IF ~IsSigned(token, SECRET_KEY)
    THEN [ok |-> FALSE, error |-> INVALID_TOKEN, claims |-> <<>>]
    ELSE IF IsExpired(token[2], t)
    THEN [ok |-> FALSE, error |-> TOKEN_EXPIRED, claims |-> <<>>]
    ELSE [ok |-> TRUE, error |-> NONE, claims |-> token[2]]

\* The access token a provider's token endpoint hands out.
ProviderAccessToken(provider) == <<"provider_access_token", provider>>

-----------------------------------------------------------------------------
(* users_collection *)

NoHash == <<>>

Indexes(us) == 1 .. Len(us)

\* find_one({"email": email}): the first matching document, 0 when none.
FindByEmail(us, email) ==
    IF \E i \in Indexes(us) : us[i].email = email
    THEN CHOOSE i \in Indexes(us) :
            /\ us[i].email = email
            /\ \A j \in 1 .. (i - 1) : us[j].email # email
    ELSE 0

\* find_one({"_id": id})
FindById(us, id) ==
    IF \E i \in Indexes(us) : us[i].id = id
    THEN CHOOSE i \in Indexes(us) : us[i].id = id
    ELSE 0

\* find_one({"temp_password": hash}): a document without the field never matches.
FindByTempPassword(us, hash) ==
    IF \E i \in Indexes(us) : us[i].temp_password = hash
    THEN CHOOSE i \in Indexes(us) :
            /\ us[i].temp_password = hash
            /\ \A j \in 1 .. (i - 1) : us[j].temp_password # hash
    ELSE 0

\* insert_one: the store assigns a fresh _id.
NewUser(us, email, password, first_name, last_name) ==
    [id |-> Len(us) + 1, email |-> email, password |-> password,
     first_name |-> first_name, last_name |-> last_name,
     mobile_number |-> NONE, auth_provider |-> NONE,
     linkedin_id |-> NONE, facebook_id |-> NONE, profile_picture |-> NONE,
     temp_password |-> NoHash, otp_expiration |-> 0]

-----------------------------------------------------------------------------
(* Responses *)

NoResp ==
    [op |-> NONE, provider |-> NONE, session |-> NONE, status |-> 0,
     detail |-> NONE, state |-> NONE, error |-> NONE, repeat |-> FALSE,
     state_checks |-> 0, exchanges |-> 0, profile_calls |-> 0,
     token |-> <<>>, user_id |-> 0, profile |-> <<>>,
     email |-> NONE, otp |-> NONE, at |-> 0, result |-> FALSE,
     password |-> NONE, authorization |-> <<>>, verify_calls |-> 0,
     verified |-> <<>>, user_data |-> <<>>, expires_delta |-> <<>>,
     issued_at |-> 0, presented |-> <<>>, current_user |-> <<>>,
     caller |-> 0, document_id |-> 0, docs |-> <<>>, replaced |-> <<>>,
     mails |-> 0]

\* The two reset-password requests that may be in flight together, and the
\* position of one that has not started.
Requests == {"r1", "r2"}

Idle ==
    [pc |-> "idle", otp |-> NONE, new_password |-> NONE, user_id |-> 0,
     status |-> 0, overlapped |-> FALSE]

NoSession ==
    [google_oauth_state |-> NONE, linkedin_oauth_state |-> NONE,
     facebook_oauth_state |-> NONE, user |-> <<>>]

Init ==
    /\ users = <<>>
    /\ session = [s \in Sessions |-> NoSession]
    /\ now = 0
    /\ resp = NoResp
    /\ otpIssued = {}
    /\ nstarts = 0
    /\ inflight = [r \in Requests |-> Idle]
    /\ documents = <<>>
    /\ registered = {}


-----------------------------------------------------------------------------
(* OAuth state guard *)

\* Every provider's state kept under one key.
StateKeyShared(provider) == "google_oauth_state"

\* The session key under which a provider's pending state is kept.
StateKey(provider) ==
    CASE provider = "google" -> "google_oauth_state"
      [] provider = "linkedin" -> "linkedin_oauth_state"
      [] provider = "facebook" -> "facebook_oauth_state"

\* The comparison alone, without `not stored_state`.
StateOkWithoutPresence(stored, state) == stored = state

\* The negation of `not stored_state or stored_state != state`.
StateOk(stored, state) == stored # NONE /\ stored = state

\* The values generate_oauth_state() returns, in the order of the calls:
\* secrets.token_urlsafe(16) does not repeat.
generate_oauth_state(n) ==
    CASE n = 0 -> "s1" [] n = 1 -> "S1" [] OTHER -> "s3"

\* A start endpoint that keeps the state a session already holds.
StartFlowKeepingPending(provider, s, state) ==
    /\ nstarts < MaxStarts
    /\ nstarts' = nstarts + 1
    /\ session' = IF session[s][StateKey(provider)] = NONE
                  THEN [session EXCEPT ![s][StateKey(provider)] = state]
                  ELSE session
    /\ resp' = [NoResp EXCEPT !.op = "start", !.provider = provider,
                              !.session = s, !.status = 307, !.state = state]
    /\ UNCHANGED <<users, now, otpIssued, inflight, documents, registered>>

\* A start endpoint: generate_oauth_state(), keep it in the session, redirect
\* to the provider with the state in the authorization URL.
StartFlow(provider, s, state) ==
    /\ nstarts < MaxStarts
    /\ nstarts' = nstarts + 1
    /\ session' = [session EXCEPT ![s][StateKey(provider)] = state]
    /\ resp' = [NoResp EXCEPT !.op = "start", !.provider = provider,
                              !.session = s, !.status = 307, !.state = state]
    /\ UNCHANGED <<users, now, otpIssued, inflight, documents, registered>>

auth_google(s, state) == StartFlow("google", s, state)

auth_linkedin(s, state) == StartFlow("linkedin", s, state)

auth_facebook(s, state) == StartFlow("facebook", s, state)

-----------------------------------------------------------------------------
(* Provider callbacks: how far a request gets *)

\* auth_google_callback has no `error` parameter: the first thing it does is
\* the state check.  A token answer without access_token and a userinfo
\* answer without email both end the flow.
google_stage(stored, state, ex, pr) ==
    IF ~StateOk(stored, state) THEN "state_mismatch"
    ELSE IF ex = "http_error" THEN "exchange_http_error"
    ELSE IF ex = "no_token" THEN "exchange_no_token"
    ELSE IF pr.http = "error" THEN "profile_http_error"
    ELSE IF pr.email = NONE THEN "missing_email"
    ELSE "ok"

linkedin_stage(stored, code, state, error, ex, pr) ==
    IF error # NONE THEN "denied"
    ELSE IF code = NONE \/ state = NONE THEN "missing_params"
    ELSE IF ~StateOk(stored, state) THEN "state_mismatch"
    ELSE IF ex = "http_error" THEN "exchange_http_error"
    ELSE IF ex = "no_token" THEN "exchange_no_token"
    ELSE IF pr.http = "error" THEN "profile_http_error"
    ELSE IF pr.email = NONE THEN "missing_email"
    ELSE "ok"

facebook_stage(stored, code, state, error, ex, pr) ==
    IF error # NONE THEN "denied"
    ELSE IF code = NONE \/ state = NONE THEN "missing_params"
    ELSE IF ~StateOk(stored, state) THEN "state_mismatch"
    ELSE IF ex = "http_error" THEN "exchange_http_error"
    ELSE IF ex = "no_token" THEN "exchange_no_token"
    ELSE IF pr.http = "error" THEN "profile_http_error"
    ELSE IF pr.email = NONE THEN "missing_email"
    ELSE "ok"

\* Google wraps every failure inside its try block into a 400.  LinkedIn and
\* Facebook turn httpx.HTTPStatusError into 400 and everything else raised
\* inside the try block (a KeyError on "access_token", the HTTPException of
\* the missing-email check) into 500.
callback_status(provider, stage) ==
    IF stage = "ok" THEN 200
    ELSE IF provider # "google" /\ stage \in {"exchange_no_token", "missing_email"}
         THEN 500
    ELSE 400

\* Calls made before the request ended at a stage.
StateChecks(stage) == IF stage \in {"denied", "missing_params"} THEN 0 ELSE 1

\* A token exchange that is tried again when the provider answers non-2xx.
ExchangesRetried(stage) ==
    IF stage \in {"denied", "missing_params", "state_mismatch"} THEN 0
    ELSE IF stage = "exchange_http_error" THEN 2
    ELSE 1

Exchanges(stage) ==
    IF stage \in {"denied", "missing_params", "state_mismatch"} THEN 0 ELSE 1

ProfileCalls(stage) ==
    IF stage \in {"denied", "missing_params", "state_mismatch",
                  "exchange_http_error", "exchange_no_token"} THEN 0 ELSE 1

\* The writes placed ahead of the missing-email check.
ReconcilesBeforeEmailCheck(stage) == stage \in {"ok", "missing_email"}

\* The store and the session are written only past the last check.
Reconciles(stage) == stage = "ok"

-----------------------------------------------------------------------------
(* Account reconciliation *)

LINKEDIN_SUB == "linkedin-sub"
FACEBOOK_ID == "facebook-id"
FACEBOOK_PICTURE == "picture-url"

\* The id the callback reports: the inserted id, or the existing record's.
UpsertId(us, email) ==
    IF FindByEmail(us, email) = 0 THEN Len(us) + 1 ELSE us[FindByEmail(us, email)].id

\* The record rewritten as on creation, with a fresh random password.
google_update_with_password(u, pr) ==
    [u EXCEPT !.first_name = pr.given_name, !.last_name = pr.family_name,
              !.password = hash_password("100000"), !.auth_provider = "google"]

google_update(u, pr) ==
    [u EXCEPT !.first_name = pr.given_name, !.last_name = pr.family_name,
              !.auth_provider = "google"]

google_upsert(us, pr, pw) ==
    IF FindByEmail(us, pr.email) = 0
    THEN Append(us, [NewUser(us, pr.email, hash_password(pw),
                             pr.given_name, pr.family_name)
                        EXCEPT !.auth_provider = "google"])
    ELSE [us EXCEPT ![FindByEmail(us, pr.email)] = google_update(@, pr)]

linkedin_update(u, pr) ==
    [u EXCEPT !.first_name = pr.given_name, !.last_name = pr.family_name,
              !.linkedin_id = LINKEDIN_SUB, !.auth_provider = "linkedin"]

linkedin_upsert(us, pr, pw) ==
    IF FindByEmail(us, pr.email) = 0
    THEN Append(us, [NewUser(us, pr.email, hash_password(pw),
                             pr.given_name, pr.family_name)
                        EXCEPT !.linkedin_id = LINKEDIN_SUB,
                               !.auth_provider = "linkedin"])
    ELSE [us EXCEPT ![FindByEmail(us, pr.email)] = linkedin_update(@, pr)]

facebook_update(u, pr) ==
    [u EXCEPT !.first_name = pr.given_name, !.last_name = pr.family_name,
              !.facebook_id = FACEBOOK_ID, !.profile_picture = FACEBOOK_PICTURE,
              !.auth_provider = "facebook"]

facebook_upsert(us, pr, pw) ==
    IF FindByEmail(us, pr.email) = 0
    THEN Append(us, [NewUser(us, pr.email, hash_password(pw),
                             pr.given_name, pr.family_name)
                        EXCEPT !.facebook_id = FACEBOOK_ID,
                               !.profile_picture = FACEBOOK_PICTURE,
                               !.auth_provider = "facebook"])
    ELSE [us EXCEPT ![FindByEmail(us, pr.email)] = facebook_update(@, pr)]

\* request.session["user"] = {...}
SessionUser(provider, uid, pr) ==
    [id |-> uid, email |-> pr.email, first_name |-> pr.given_name,
     last_name |-> pr.family_name, auth_provider |-> provider,
     profile_picture |-> IF provider = "facebook" THEN FACEBOOK_PICTURE ELSE NONE]

-----------------------------------------------------------------------------
(* Provider callbacks *)

\* What a provider answers when it is not called.
NoAnswer == [http |-> "error", email |-> NONE, given_name |-> NONE, family_name |-> NONE]

\* The token endpoint answers only a request that reached the exchange, the
\* userinfo endpoint only one that carried an access token.
TokenAnswers(pre) == IF Exchanges(pre) = 1 THEN ExchangeOutcomes ELSE {"ok"}

ProfileAnswers(pre, ex, profiles) ==
    IF Exchanges(pre) = 1 /\ ex = "ok" THEN profiles ELSE {NoAnswer}

\* History kept with the response: is this the successful callback that the
\* request before it was, same provider and same profile?
Repeats(provider, stage, pr) ==
    /\ stage = "ok"
    /\ resp.op = "callback"
    /\ resp.status = 200
    /\ resp.provider = provider
    /\ resp.profile = <<pr>>

CallbackResp(provider, s, state, error, stage, token, uid, pr) ==
    [NoResp EXCEPT
        !.op = "callback", !.provider = provider, !.session = s,
        !.status = callback_status(provider, stage), !.detail = stage,
        !.state = state, !.error = error,
        !.repeat = Repeats(provider, stage, pr),
        !.state_checks = StateChecks(stage), !.exchanges = Exchanges(stage),
        !.profile_calls = ProfileCalls(stage),
        !.token = IF stage = "ok" THEN token ELSE <<>>,
        !.user_id = IF stage = "ok" THEN uid ELSE 0,
        !.profile = IF stage = "ok" THEN <<pr>> ELSE <<>>]

\* GET /auth/google/callback.  `code` is a required query parameter; an
\* `error` parameter of the request is not among the handler's parameters.
auth_google_callback(s, code, state, error, profiles) ==
    LET stored == session[s][StateKey("google")]
        pre == google_stage(stored, state, "ok", NoAnswer)
    IN  \E ex \in TokenAnswers(pre) :
        \E pr \in ProfileAnswers(pre, ex, profiles), pw \in RandomPasswords :
        LET stage == google_stage(stored, state, ex, pr)
            uid == UpsertId(users, pr.email)
        IN  /\ (Reconciles(stage) /\ FindByEmail(users, pr.email) = 0)
                  => Len(users) < MaxUsers
            /\ users' = IF Reconciles(stage) THEN google_upsert(users, pr, pw)
                        ELSE users
            /\ session' = IF Reconciles(stage)
                          THEN [session EXCEPT
                                   ![s].user = <<SessionUser("google", uid, pr)>>]
                          ELSE session
            /\ resp' = CallbackResp("google", s, state, error, stage,
                                    generate_access_token(
                                        UserClaims(uid, pr.email), NoDelta, now), uid, pr)
            /\ UNCHANGED <<now, otpIssued, nstarts, inflight, documents, registered>>

\* GET /auth/linkedin/callback
linkedin_callback(s, code, state, error, profiles) ==
    LET stored == session[s][StateKey("linkedin")]
        pre == linkedin_stage(stored, code, state, error, "ok", NoAnswer)
    IN  \E ex \in TokenAnswers(pre) :
        \E pr \in ProfileAnswers(pre, ex, profiles), pw \in RandomPasswords :
        LET stage == linkedin_stage(stored, code, state, error, ex, pr)
            uid == UpsertId(users, pr.email)
        IN  /\ (Reconciles(stage) /\ FindByEmail(users, pr.email) = 0)
                  => Len(users) < MaxUsers
            /\ users' = IF Reconciles(stage) THEN linkedin_upsert(users, pr, pw)
                        ELSE users
            /\ session' = IF Reconciles(stage)
                          THEN [session EXCEPT
                                   ![s].user = <<SessionUser("linkedin", uid, pr)>>]
                          ELSE session
            /\ resp' = CallbackResp("linkedin", s, state, error, stage,
                                    generate_access_token(
                                        UserClaims(uid, pr.email), NoDelta, now), uid, pr)
            /\ UNCHANGED <<now, otpIssued, nstarts, inflight, documents, registered>>

\* GET /auth/facebook/callback.  The access_token of the response is the
\* variable the token exchange assigned: generate_access_token is not called.
facebook_callback(s, code, state, error, profiles) ==
    LET stored == session[s][StateKey("facebook")]
        pre == facebook_stage(stored, code, state, error, "ok", NoAnswer)
    IN  \E ex \in TokenAnswers(pre) :
        \E pr \in ProfileAnswers(pre, ex, profiles), pw \in RandomPasswords :
        LET stage == facebook_stage(stored, code, state, error, ex, pr)
            uid == UpsertId(users, pr.email)
        IN  /\ (Reconciles(stage) /\ FindByEmail(users, pr.email) = 0)
                  => Len(users) < MaxUsers
            /\ users' = IF Reconciles(stage) THEN facebook_upsert(users, pr, pw)
                        ELSE users
            /\ session' = IF Reconciles(stage)
                          THEN [session EXCEPT
                                   ![s].user = <<SessionUser("facebook", uid, pr)>>]
                          ELSE session
            /\ resp' = CallbackResp("facebook", s, state, error, stage,
                                    ProviderAccessToken("facebook"), uid, pr)
            /\ UNCHANGED <<now, otpIssued, nstarts, inflight, documents, registered>>

\* GET /profile: the session's user, or the answer that nobody is logged in.
profile(s) ==
    /\ resp' = [NoResp EXCEPT !.op = "profile", !.session = s, !.status = 200,
                              !.result = session[s].user # <<>>,
                              !.current_user = session[s].user]
    /\ UNCHANGED <<users, session, now, otpIssued, nstarts, inflight, documents, registered>>

\* A logout that removes the user and leaves the pending states.
logout_keeping_states(s) ==
    /\ session' = [session EXCEPT ![s].user = <<>>]
    /\ resp' = [NoResp EXCEPT !.op = "logout", !.session = s, !.status = 200]
    /\ UNCHANGED <<users, now, otpIssued, nstarts, inflight, documents, registered>>

\* GET /logout
logout(s) ==
    /\ session' = [session EXCEPT ![s] = NoSession]
    /\ resp' = [NoResp EXCEPT !.op = "logout", !.session = s, !.status = 200]
    /\ UNCHANGED <<users, now, otpIssued, nstarts, inflight, documents, registered>>

-----------------------------------------------------------------------------
(* Local credentials *)

\* A registration that overwrites the record an email already has.
register_user_overwriting(email, password, first_name, last_name) ==
    LET i == FindByEmail(users, email) IN
    IF i # 0
    THEN /\ users' = [users EXCEPT ![i].password = hash_password(password),
                                   ![i].first_name = first_name,
                                   ![i].last_name = last_name]
         /\ resp' = [NoResp EXCEPT !.op = "register", !.status = 400,
                                   !.detail = "email_registered", !.email = email]
         /\ UNCHANGED <<session, now, otpIssued, nstarts, inflight, documents, registered>>
    ELSE /\ Len(users) < MaxUsers
         /\ users' = Append(users, NewUser(users, email, hash_password(password),
                                           first_name, last_name))
         /\ resp' = [NoResp EXCEPT
                        !.op = "register", !.status = 200, !.email = email,
                        !.user_id = Len(users) + 1,
                        !.token = generate_access_token(
                                     UserClaims(Len(users) + 1, email), NoDelta, now)]
         /\ registered' = registered \cup
                {<<email, password, Len(users) + 1,
                   generate_access_token(
                       UserClaims(Len(users) + 1, email), NoDelta, now)>>}
         /\ UNCHANGED <<session, now, otpIssued, nstarts, inflight, documents>>

\* POST /auth/register
register_user(email, password, first_name, last_name) ==
    IF FindByEmail(users, email) # 0
    THEN /\ resp' = [NoResp EXCEPT !.op = "register", !.status = 400,
                                   !.detail = "email_registered", !.email = email]
         /\ UNCHANGED <<users, session, now, otpIssued, nstarts, inflight, documents, registered>>
    ELSE /\ Len(users) < MaxUsers
         /\ users' = Append(users, NewUser(users, email, hash_password(password),
                                           first_name, last_name))
         /\ resp' = [NoResp EXCEPT
                        !.op = "register", !.status = 200, !.email = email,
                        !.user_id = Len(users) + 1,
                        !.token = generate_access_token(
                                     UserClaims(Len(users) + 1, email), NoDelta, now)]
         /\ registered' = registered \cup
                {<<email, password, Len(users) + 1,
                   generate_access_token(
                       UserClaims(Len(users) + 1, email), NoDelta, now)>>}
         /\ UNCHANGED <<session, now, otpIssued, nstarts, inflight, documents>>

\* The comparison of the stored hash with a hash taken without the salt.
login_status_unsalted(us, email, password) ==
    IF FindByEmail(us, email) = 0 THEN 400
    ELSE IF <<"sha256", password, "">> # us[FindByEmail(us, email)].password THEN 400
    ELSE 200

\* The outcome of POST /auth/login on a store.
login_status(us, email, password) ==
    IF FindByEmail(us, email) = 0 THEN 400
    ELSE IF hash_password(password) # us[FindByEmail(us, email)].password THEN 400
    ELSE 200

\* A detail that tells the two failures apart.
login_detail_revealing(us, email, password) ==
    IF FindByEmail(us, email) = 0 THEN "email_not_found" ELSE "wrong_password"

\* The detail of the HTTPException raised for an email without a record and
\* of the one raised for a password that does not match.
login_detail(us, email, password) ==
    IF FindByEmail(us, email) = 0
    THEN "invalid_email_or_password"
    ELSE "invalid_email_or_password"

\* POST /auth/login
login_user(email, password) ==
    /\ resp' = IF login_status(users, email, password) = 200
               THEN [NoResp EXCEPT
                        !.op = "login", !.status = 200, !.email = email,
                        !.user_id = users[FindByEmail(users, email)].id,
                        !.password = password,
                        !.token = generate_access_token(
                                     UserClaims(users[FindByEmail(users, email)].id,
                                                users[FindByEmail(users, email)].email),
                                     NoDelta, now)]
               ELSE [NoResp EXCEPT !.op = "login", !.status = 400,
                                   !.detail = login_detail(users, email, password),
                                   !.email = email, !.password = password]
    /\ UNCHANGED <<users, session, now, otpIssued, nstarts, inflight, documents, registered>>

\* $set of the fields of the request body that are not None.
ApplyPatch(u, patch) ==
    [u EXCEPT
        !.first_name = IF patch.first_name # NONE THEN patch.first_name ELSE @,
        !.last_name = IF patch.last_name # NONE THEN patch.last_name ELSE @,
        !.email = IF patch.email # NONE THEN patch.email ELSE @,
        !.mobile_number = IF patch.mobile_number # NONE THEN patch.mobile_number ELSE @]

PatchIsEmpty(patch) ==
    /\ patch.first_name = NONE
    /\ patch.last_name = NONE
    /\ patch.email = NONE
    /\ patch.mobile_number = NONE

\* PUT /auth/profiles, called with a bearer token whose subject is user_id.
\* The two HTTPException(400) are raised inside the try block and leave the
\* handler as 500.
update_profile(user_id, patch) ==
    LET i == FindById(users, user_id) IN
    IF PatchIsEmpty(patch)
    THEN /\ resp' = [NoResp EXCEPT !.op = "update_profile", !.status = 500,
                                   !.detail = "no_fields", !.user_id = user_id]
         /\ UNCHANGED <<users, session, now, otpIssued, nstarts, inflight, documents, registered>>
    ELSE IF i = 0 \/ ApplyPatch(users[i], patch) = users[i]
    THEN /\ resp' = [NoResp EXCEPT !.op = "update_profile", !.status = 500,
                                   !.detail = "no_changes", !.user_id = user_id]
         /\ UNCHANGED <<users, session, now, otpIssued, nstarts, inflight, documents, registered>>
    ELSE /\ users' = [users EXCEPT ![i] = ApplyPatch(@, patch)]
         /\ resp' = [NoResp EXCEPT !.op = "update_profile", !.status = 200,
                                   !.user_id = user_id,
                                   !.email = ApplyPatch(users[i], patch).email]
         /\ UNCHANGED <<session, now, otpIssued, nstarts, inflight, documents, registered>>

-----------------------------------------------------------------------------
(* Identity tokens *)

\* The claims maps handed to generate_access_token: empty, with and without
\* an email, and one that brings an "exp" entry of its own.
ClaimsMaps ==
    {<<>>, [sub |-> 1], [sub |-> 1, email |-> "a@x.com"], [sub |-> 2, exp |-> 5]}

\* expires_delta as the caller passes it, in minutes.
Deltas == {NoDelta, <<15>>, <<-15>>}

OTHER_KEY == "OTHER_KEY"

\* What a caller can present in place of a token it was issued: the token
\* itself, the token with its expiry moved and the signature kept, the
\* payload signed with another key, the payload with a foreign signature
\* part, a provider's access token, and a string that is no token.
Presentable(token) ==
    {token,
     <<"jwt", [token[2] EXCEPT !["exp"] = @ + 100], token[3]>>,
     jwt_encode(token[2], OTHER_KEY),
     <<"jwt", token[2], <<"HS256", token[2], "">>>>,
     ProviderAccessToken("facebook"),
     <<"garbage">>}

\* generate_access_token(user_data, expires_delta)
IssueToken(user_data, expires_delta) ==
    /\ resp' = [NoResp EXCEPT
                   !.op = "issue_token", !.user_data = user_data,
                   !.expires_delta = expires_delta, !.issued_at = now,
                   !.token = generate_access_token(user_data, expires_delta, now)]
    /\ UNCHANGED <<users, session, now, otpIssued, nstarts, inflight, documents, registered>>

\* verify_access_token(token), for the token issued last or what was made of it
VerifyToken(token) ==
    /\ resp.op \in {"issue_token", "verify_token", "current_user"}
    /\ resp' = [resp EXCEPT
                   !.op = "verify_token", !.presented = token, !.at = now,
                   !.verified = <<verify_access_token(token, now)>>]
    /\ UNCHANGED <<users, session, now, otpIssued, nstarts, inflight, documents, registered>>

\* An Authorization header is the sequence of the parts that split(" ")
\* makes of it; the absent header is the empty sequence and an empty part is
\* the empty sequence too.  These are the headers made of a token: absent,
\* empty, the scheme alone, well formed, other schemes, two spaces after the
\* scheme, and a trailing part.
Headers(token) ==
    {<<>>, <<"">>, <<"Bearer">>, <<"Bearer", token>>, <<"bearer", token>>,
     <<"Basic", token>>, <<"Bearer", <<>>, token>>, <<"Bearer", token, "x">>}

\* A header accepted whatever its scheme.
startswith_any_scheme(authorization) == Len(authorization) >= 2

\* authorization.startswith("Bearer "): the first part is the scheme and a
\* space follows it.
startswith_bearer(authorization) ==
    Len(authorization) >= 2 /\ authorization[1] = "Bearer"

\* dict.get: None for a missing key.
Get(f, k) == IF k \in DOMAIN f THEN f[k] ELSE NONE

MISSING_TOKEN == "Missing or invalid access token"

\* An extraction that also wants the store to hold the subject under the
\* email of the token.
get_current_user_checking_store(authorization, t) ==
    IF authorization = <<>> \/ ~startswith_bearer(authorization)
    THEN [status |-> 401, detail |-> MISSING_TOKEN, verify_calls |-> 0,
          user |-> <<>>]
    ELSE LET token_data == verify_access_token(authorization[2], t) IN
         IF /\ token_data.ok
            /\ \E i \in Indexes(users) :
                  /\ users[i].id = Get(token_data.claims, "sub")
                  /\ users[i].email = Get(token_data.claims, "email")
         THEN [status |-> 200, detail |-> NONE, verify_calls |-> 1,
               user |-> <<[id |-> Get(token_data.claims, "sub"),
                           email |-> Get(token_data.claims, "email")]>>]
         ELSE [status |-> 401, detail |-> INVALID_TOKEN, verify_calls |-> 1,
               user |-> <<>>]

\* get_current_user(authorization) at time t: the 401 raised before or
\* after the verification of authorization.split(" ")[1], or the identity.
get_current_user(authorization, t) ==
    IF authorization = <<>> \/ ~startswith_bearer(authorization)
    THEN [status |-> 401, detail |-> MISSING_TOKEN, verify_calls |-> 0,
          user |-> <<>>]
    ELSE LET token_data == verify_access_token(authorization[2], t) IN
         IF token_data.ok
         THEN [status |-> 200, detail |-> NONE, verify_calls |-> 1,
               user |-> <<[id |-> Get(token_data.claims, "sub"),
                           email |-> Get(token_data.claims, "email")]>>]
         ELSE [status |-> 401, detail |-> token_data.error, verify_calls |-> 1,
               user |-> <<>>]

\* A request to a protected route, up to the dependency get_current_user.
CurrentUser(authorization) ==
    /\ resp.op \in {"issue_token", "verify_token", "current_user"}
    /\ LET r == get_current_user(authorization, now) IN
       resp' = [resp EXCEPT
                   !.op = "current_user", !.authorization = authorization,
                   !.at = now, !.status = r.status, !.detail = r.detail,
                   !.verify_calls = r.verify_calls, !.current_user = r.user]
    /\ UNCHANGED <<users, session, now, otpIssued, nstarts, inflight, documents, registered>>

\* The identity tokens the routes have handed out and a caller may still
\* hold: those of the registrations and the one of the last response of a
\* login or of a Google or LinkedIn callback (the access_token of a Facebook
\* response is the provider's).
IssuedTokens ==
    {reg[4] : reg \in registered}
    \cup (IF /\ resp.op \in {"login", "callback"}
             /\ resp.status = 200
             /\ resp.provider # "facebook"
          THEN {resp.token} ELSE {})

\* A request to a protected route with "Bearer <token>", up to the
\* dependency get_current_user.
RouteCall(token) ==
    /\ LET r == get_current_user(<<"Bearer", token>>, now) IN
       resp' = [NoResp EXCEPT
                   !.op = "route_call", !.authorization = <<"Bearer", token>>,
                   !.at = now, !.status = r.status, !.detail = r.detail,
                   !.verify_calls = r.verify_calls, !.current_user = r.user]
    /\ UNCHANGED <<users, session, now, otpIssued, nstarts, inflight, documents, registered>>

-----------------------------------------------------------------------------
(* documents collection (document_routes.py).  `documents` holds every      *)
(* document ever inserted, in insertion order; a deleted one stays as a     *)
(* slot marked deleted, its _id never being assigned again.  A text is the  *)
(* sequence of its characters, the empty sequence when the field is absent. *)

\* The ids of the callers: current_user["id"], the subject of the token.
Callers == {1, 2}

VALID_TYPES == {"id", "business", "book", "document"}

NoText == <<>>

\* The user_id a request body can carry: none (0), or the id of a caller.
BodyUserIds == {0} \cup Callers

\* The bodies of POST /api/documents/ (DocumentCreate).
DocumentBodies ==
    UNION {{[document_name |-> <<"T", "a", "x">>, scan_type |-> "id",
             name |-> <<"A", "l">>, user_id |-> u],
            [document_name |-> <<"T", "a", "x">>, scan_type |-> "book",
             name |-> NoText, user_id |-> u]} : u \in BodyUserIds}

\* The bodies of PUT /api/documents/{id}, None being the absent text or NONE.
\* DocumentUpdate has no user_id field: one that the body carries is dropped
\* when the body is parsed.
DocumentPatches ==
    {[document_name |-> NoText, scan_type |-> NONE, user_id |-> 0],
     [document_name |-> NoText, scan_type |-> NONE, user_id |-> 2],
     [document_name |-> <<"a", "X">>, scan_type |-> "book", user_id |-> 2]}

\* The document ids a request can name: 0 is a string that is no ObjectId.
DocumentIds == 0 .. (MaxDocs + 1)

ScanTypes == {"book", "photo"}
Queries == {<<"A", "L">>, <<"a", "x">>}

\* skip and limit of a listing: the first ten, or the second document alone.
Pages == {[skip |-> 0, limit |-> 10], [skip |-> 1, limit |-> 1]}

ObjectId_is_valid(document_id) == document_id > 0

\* The slot a deleted document leaves: nothing of it but the _id it had and
\* the owner it had.
Deleted(d) ==
    [id |-> d.id, user_id |-> d.user_id, deleted |-> TRUE,
     document_name |-> NoText, scan_type |-> NONE, name |-> NoText,
     created_at |-> 0, updated_at |-> 0]

\* A filter that leaves the owner out.
OwnedByAnyone(d, caller) == ~d.deleted

\* {"user_id": current_user["id"]} in the filter of a store operation.
OwnedBy(d, caller) == ~d.deleted /\ d.user_id = caller

\* The lookup by _id alone.
FindAnyOwner(docs, document_id, caller) ==
    IF \E i \in 1 .. Len(docs) : docs[i].id = document_id /\ ~docs[i].deleted
    THEN CHOOSE i \in 1 .. Len(docs) : docs[i].id = document_id
    ELSE 0

\* find_one / update_one / delete_one with {"_id": ..., "user_id": ...}:
\* the position of the document, 0 when the filter matches none.
FindOwned(docs, document_id, caller) ==
    IF \E i \in 1 .. Len(docs) : docs[i].id = document_id /\ OwnedBy(docs[i], caller)
    THEN CHOOSE i \in 1 .. Len(docs) :
            docs[i].id = document_id /\ OwnedBy(docs[i], caller)
    ELSE 0

Min(a, b) == IF a <= b THEN a ELSE b

\* cursor.skip(skip).limit(limit).to_list(length=limit)
Page(found, skip, limit) == SubSeq(found, skip + 1, Min(Len(found), skip + limit))

Lower(c) ==
    CASE c = "A" -> "a" [] c = "L" -> "l" [] c = "T" -> "t" [] c = "X" -> "x"
      [] OTHER -> c

LowerText(text) == [i \in 1 .. Len(text) |-> Lower(text[i])]

\* {"$regex": query, "$options": "i"} for a query without regex operators:
\* the query occurs in the text, letter case aside; an absent field matches
\* no query.
RegexMatch(text, query) ==
    /\ text # NoText
    /\ \E i \in 1 .. (Len(text) - Len(query) + 1) :
          SubSeq(LowerText(text), i, i + Len(query) - 1) = LowerText(query)

\* The orders in which sort([("created_at", -1)]) can return the documents:
\* the store does not fix the order of documents created at the same time.
SortedByCreatedAtDesc(found) ==
    LET n == Len(found)
        orders == {f \in [1 .. n -> 1 .. n] :
                     /\ \A i, j \in 1 .. n : i # j => f[i] # f[j]
                     /\ \A i, j \in 1 .. n :
                           i < j => found[f[i]].created_at >= found[f[j]].created_at}
    IN  {[i \in 1 .. n |-> found[f[i]]] : f \in orders}

DocResp(op, caller, document_id, status, detail, docs) ==
    [NoResp EXCEPT !.op = op, !.caller = caller, !.document_id = document_id,
                   !.status = status, !.detail = detail, !.docs = docs, !.at = now]

DocFrame == UNCHANGED <<users, session, now, otpIssued, nstarts, inflight, registered>>

\* A creation that keeps the user_id of the body when it carries one.
create_document_trusting_body(caller, body) ==
    LET d == [id |-> Len(documents) + 1,
              user_id |-> IF body.user_id # 0 THEN body.user_id ELSE caller,
              deleted |-> FALSE,
              document_name |-> body.document_name, scan_type |-> body.scan_type,
              name |-> body.name, created_at |-> now, updated_at |-> now]
    IN  /\ Len(documents) < MaxDocs
        /\ documents' = Append(documents, d)
        /\ resp' = [DocResp("create_document", caller, d.id, 201, NONE, <<d>>)
                       EXCEPT !.user_id = body.user_id]
        /\ DocFrame

\* POST /api/documents/: user_id is set from the token, whatever the body
\* says; the response log keeps the user_id the body carried.
create_document(caller, body) ==
    LET d == [id |-> Len(documents) + 1, user_id |-> caller, deleted |-> FALSE,
              document_name |-> body.document_name, scan_type |-> body.scan_type,
              name |-> body.name, created_at |-> now, updated_at |-> now]
    IN  /\ Len(documents) < MaxDocs
        /\ documents' = Append(documents, d)
        /\ resp' = [DocResp("create_document", caller, d.id, 201, NONE, <<d>>)
                       EXCEPT !.user_id = body.user_id]
        /\ DocFrame

\* GET /api/documents/
read_documents(caller, skip, limit) ==
    LET found == SelectSeq(documents, LAMBDA d : OwnedBy(d, caller)) IN
    /\ resp' = DocResp("read_documents", caller, 0, 200, NONE,
                       Page(found, skip, limit))
    /\ UNCHANGED documents
    /\ DocFrame

\* GET /api/documents/{document_id}
read_document(caller, document_id) ==
    LET i == FindOwned(documents, document_id, caller) IN
    /\ resp' = IF ~ObjectId_is_valid(document_id)
               THEN DocResp("read_document", caller, document_id, 400,
                            "invalid_id", <<>>)
               ELSE IF i = 0
               THEN DocResp("read_document", caller, document_id, 404,
                            "not_found_or_unauthorized", <<>>)
               ELSE DocResp("read_document", caller, document_id, 200, NONE,
                            <<documents[i]>>)
    /\ UNCHANGED documents
    /\ DocFrame

\* $set of the fields of the body that are not None, and of updated_at.
ApplyDocumentPatch(d, patch) ==
    [d EXCEPT
        !.document_name = IF patch.document_name # NoText
                          THEN patch.document_name ELSE @,
        !.scan_type = IF patch.scan_type # NONE THEN patch.scan_type ELSE @,
        !.updated_at = now]

DocumentPatchIsEmpty(patch) ==
    patch.document_name = NoText /\ patch.scan_type = NONE

\* PUT /api/documents/{document_id}
update_document(caller, document_id, patch) ==
    LET i == FindOwned(documents, document_id, caller) IN
    IF ~ObjectId_is_valid(document_id)
    THEN /\ resp' = DocResp("update_document", caller, document_id, 400,
                            "invalid_id", <<>>)
         /\ UNCHANGED documents
         /\ DocFrame
    ELSE IF DocumentPatchIsEmpty(patch)
    THEN /\ resp' = DocResp("update_document", caller, document_id, 400,
                            "no_fields", <<>>)
         /\ UNCHANGED documents
         /\ DocFrame
    ELSE IF i = 0
    THEN /\ resp' = DocResp("update_document", caller, document_id, 404,
                            "not_found_or_unauthorized", <<>>)
         /\ UNCHANGED documents
         /\ DocFrame
    ELSE /\ documents' = [documents EXCEPT ![i] = ApplyDocumentPatch(@, patch)]
         /\ resp' = DocResp("update_document", caller, document_id, 200, NONE,
                            <<ApplyDocumentPatch(documents[i], patch)>>)
         /\ DocFrame

\* DELETE /api/documents/{document_id}
delete_document(caller, document_id) ==
    LET i == FindOwned(documents, document_id, caller) IN
    IF ~ObjectId_is_valid(document_id)
    THEN /\ resp' = DocResp("delete_document", caller, document_id, 400,
                            "invalid_id", <<>>)
         /\ UNCHANGED documents
         /\ DocFrame
    ELSE IF i = 0
    THEN /\ resp' = DocResp("delete_document", caller, document_id, 404,
                            "not_found_or_unauthorized", <<>>)
         /\ UNCHANGED documents
         /\ DocFrame
    ELSE /\ documents' = [documents EXCEPT ![i] = Deleted(@)]
         /\ resp' = DocResp("delete_document", caller, document_id, 204, NONE, <<>>)
         /\ DocFrame

\* GET /api/documents/type/{scan_type}
get_documents_by_type(caller, scan_type, skip, limit) ==
    LET found == SelectSeq(documents,
                           LAMBDA d : d.scan_type = scan_type /\ OwnedBy(d, caller))
    IN  /\ IF scan_type \notin VALID_TYPES
           THEN resp' = DocResp("get_documents_by_type", caller, 0, 400,
                                "invalid_scan_type", <<>>)
           ELSE \E sorted \in SortedByCreatedAtDesc(found) :
                   resp' = DocResp("get_documents_by_type", caller, 0, 200, NONE,
                                   Page(sorted, skip, limit))
        /\ UNCHANGED documents
        /\ DocFrame

\* GET /api/documents/search/
search_documents(caller, query, skip, limit) ==
    LET found == SelectSeq(documents,
                           LAMBDA d : /\ OwnedBy(d, caller)
                                      /\ \/ RegexMatch(d.document_name, query)
                                         \/ RegexMatch(d.name, query))
    IN  /\ resp' = DocResp("search_documents", caller, 0, 200, NONE,
                           Page(found, skip, limit))
        /\ UNCHANGED documents
        /\ DocFrame

-----------------------------------------------------------------------------
(* One-time codes for the password reset *)

\* The latest issue of a code to a user replaces the one recorded before.
RecordIssue(id, code) ==
    {r \in otpIssued : r[1] # id} \cup {<<id, code, now>>}

\* A handler that sends the message first and stores the hash when the
\* message was delivered.
forgot_password_sending_first(email, code, sent) ==
    LET i == FindByEmail(users, email) IN
    IF i = 0
    THEN /\ resp' = [NoResp EXCEPT !.op = "forgot_password", !.status = 400,
                                   !.detail = "email_not_found", !.email = email,
                                   !.at = now]
         /\ UNCHANGED <<users, session, now, otpIssued, nstarts, inflight, documents, registered>>
    ELSE /\ users' = IF sent
                     THEN [users EXCEPT ![i].temp_password = hash_password(code)]
                     ELSE users
         /\ otpIssued' = IF sent THEN RecordIssue(users[i].id, code) ELSE otpIssued
         /\ resp' = [NoResp EXCEPT !.op = "forgot_password",
                                   !.status = IF sent THEN 200 ELSE 500,
                                   !.detail = IF sent THEN NONE ELSE "send_failed",
                                   !.email = email, !.otp = code, !.at = now,
                                   !.user_id = users[i].id,
                                   !.replaced = users[i].temp_password,
                                   !.mails = 1]
         /\ UNCHANGED <<session, now, nstarts, inflight, documents, registered>>

\* POST /auth/forgot-password.  `code` is generate_temp_password(); `sent`
\* tells whether send_email returned or raised, after the store was written;
\* `mails` counts the calls of send_email.
forgot_password(email, code, sent) ==
    LET i == FindByEmail(users, email) IN
    IF i = 0
    THEN /\ resp' = [NoResp EXCEPT !.op = "forgot_password", !.status = 400,
                                   !.detail = "email_not_found", !.email = email,
                                   !.at = now]
         /\ UNCHANGED <<users, session, now, otpIssued, nstarts, inflight, documents, registered>>
    ELSE /\ users' = [users EXCEPT ![i].temp_password = hash_password(code)]
         /\ otpIssued' = RecordIssue(users[i].id, code)
         /\ resp' = [NoResp EXCEPT !.op = "forgot_password",
                                   !.status = IF sent THEN 200 ELSE 500,
                                   !.detail = IF sent THEN NONE ELSE "send_failed",
                                   !.email = email, !.otp = code, !.at = now,
                                   !.user_id = users[i].id,
                                   !.replaced = users[i].temp_password,
                                   !.mails = 1]
         /\ UNCHANGED <<session, now, nstarts, inflight, documents, registered>>

\* A reset that drops every pending code when the request fails.
reset_password_consuming(otp, new_password, confirm_password) ==
    LET i == FindByTempPassword(users, hash_password(otp)) IN
    IF new_password # confirm_password \/ i = 0
    THEN /\ users' = [j \in Indexes(users) |->
                         [users[j] EXCEPT !.temp_password = NoHash]]
         /\ resp' = [NoResp EXCEPT !.op = "reset_password", !.status = 400,
                                   !.detail = IF new_password # confirm_password
                                              THEN "passwords_do_not_match"
                                              ELSE "invalid_otp",
                                   !.otp = otp, !.at = now]
         /\ UNCHANGED <<session, now, otpIssued, nstarts, inflight, documents, registered>>
    ELSE /\ users' = [users EXCEPT ![i].password = hash_password(new_password),
                                   ![i].temp_password = NoHash]
         /\ resp' = [NoResp EXCEPT !.op = "reset_password", !.status = 200,
                                   !.otp = otp, !.at = now, !.user_id = users[i].id]
         /\ UNCHANGED <<session, now, otpIssued, nstarts, inflight, documents, registered>>

\* POST /auth/reset-password
reset_password(otp, new_password, confirm_password) ==
    LET i == FindByTempPassword(users, hash_password(otp)) IN
    IF new_password # confirm_password
    THEN /\ resp' = [NoResp EXCEPT !.op = "reset_password", !.status = 400,
                                   !.detail = "passwords_do_not_match",
                                   !.otp = otp, !.at = now]
         /\ UNCHANGED <<users, session, now, otpIssued, nstarts, inflight, documents, registered>>
    ELSE IF i = 0
    THEN /\ resp' = [NoResp EXCEPT !.op = "reset_password", !.status = 400,
                                   !.detail = "invalid_otp", !.otp = otp, !.at = now]
         /\ UNCHANGED <<users, session, now, otpIssued, nstarts, inflight, documents, registered>>
    ELSE /\ users' = [users EXCEPT ![i].password = hash_password(new_password),
                                   ![i].temp_password = NoHash]
         /\ resp' = [NoResp EXCEPT !.op = "reset_password", !.status = 200,
                                   !.otp = otp, !.at = now, !.user_id = users[i].id]
         /\ UNCHANGED <<session, now, otpIssued, nstarts, inflight, documents, registered>>

\* reset_password handled as the two store operations it makes, so that the
\* requests of two callers interleave: first the comparison of the passwords
\* and find_one({"temp_password": hashed_otp}) ...
reset_password_lookup(r, otp, new_password, confirm_password) ==
    LET i == FindByTempPassword(users, hash_password(otp))
        failed == new_password # confirm_password \/ i = 0
    IN  /\ inflight[r].pc = "idle"
        /\ inflight' = [inflight EXCEPT ![r] =
              [pc |-> IF failed THEN "done" ELSE "found",
               otp |-> otp, new_password |-> new_password,
               user_id |-> IF failed THEN 0 ELSE users[i].id,
               status |-> IF failed THEN 400 ELSE 0,
               overlapped |-> \E q \in Requests \ {r} :
                                 inflight[q].pc = "found" /\ inflight[q].otp = otp]]
        /\ resp' = IF failed
                   THEN [NoResp EXCEPT
                           !.op = "reset_password", !.status = 400,
                           !.detail = IF new_password # confirm_password
                                      THEN "passwords_do_not_match"
                                      ELSE "invalid_otp",
                           !.otp = otp, !.at = now]
                   ELSE resp
        /\ UNCHANGED <<users, session, now, otpIssued, nstarts, documents, registered>>

\* ... then update_one({"_id": existing_user["_id"]}, $set password, $unset
\* temp_password) on the record the lookup returned, and the 200 response.
reset_password_update(r) ==
    LET i == FindById(users, inflight[r].user_id) IN
    /\ inflight[r].pc = "found"
    /\ users' = [users EXCEPT
                    ![i].password = hash_password(inflight[r].new_password),
                    ![i].temp_password = NoHash]
    /\ inflight' = [inflight EXCEPT ![r].pc = "done", ![r].status = 200]
    /\ resp' = [NoResp EXCEPT !.op = "reset_password", !.status = 200,
                              !.otp = inflight[r].otp, !.at = now,
                              !.user_id = inflight[r].user_id]
    /\ UNCHANGED <<session, now, otpIssued, nstarts, documents, registered>>

\* generate_otp(email, users_collection): update_one on a missing email
\* changes nothing.
generate_otp(email, code) ==
    LET i == FindByEmail(users, email) IN
    /\ users' = IF i = 0 THEN users
                ELSE [users EXCEPT ![i].temp_password = hash_password(code),
                                   ![i].otp_expiration = now + OTP_TTL]
    /\ otpIssued' = IF i = 0 THEN otpIssued ELSE RecordIssue(users[i].id, code)
    /\ resp' = [NoResp EXCEPT !.op = "generate_otp", !.email = email,
                              !.otp = code, !.at = now]
    /\ UNCHANGED <<session, now, nstarts, inflight, documents, registered>>

\* verify_otp(email, otp, users_collection) at time t
verify_otp(us, t, email, otp) ==
    LET i == FindByEmail(us, email) IN
    IF i = 0 THEN FALSE
    ELSE IF \/ us[i].temp_password = NoHash
            \/ us[i].otp_expiration = 0
            \/ t > us[i].otp_expiration
         THEN FALSE
    ELSE hash_password(otp) = us[i].temp_password

VerifyOtp(email, otp) ==
    /\ resp' = [NoResp EXCEPT !.op = "verify_otp", !.email = email, !.otp = otp,
                              !.at = now,
                              !.result = verify_otp(users, now, email, otp)]
    /\ UNCHANGED <<users, session, now, otpIssued, nstarts, inflight, documents, registered>>

\* Time passes between requests.
Tick(d) ==
    /\ now + d <= MaxTime
    /\ now' = now + d
    /\ UNCHANGED <<users, session, resp, otpIssued, nstarts, inflight, documents, registered>>

-----------------------------------------------------------------------------
(* The OAuth flows: every session, every provider, one external account *)

GuardProfiles == ProfilesOf({"a@x.com"})

Next ==
    \/ \E s \in Sessions, state \in States : auth_google(s, state)
    \/ \E s \in Sessions, state \in States : auth_linkedin(s, state)
    \/ \E s \in Sessions, state \in States : auth_facebook(s, state)
    \/ \E s \in Sessions, code \in Codes, state \in PresentedStates,
          error \in ProviderErrors \cup {NONE} :
            auth_google_callback(s, code, state, error, GuardProfiles)
    \/ \E s \in Sessions, code \in Codes \cup {NONE}, state \in PresentedStates,
          error \in ProviderErrors \cup {NONE} :
            linkedin_callback(s, code, state, error, GuardProfiles)
    \/ \E s \in Sessions, code \in Codes \cup {NONE}, state \in PresentedStates,
          error \in ProviderErrors \cup {NONE} :
            facebook_callback(s, code, state, error, GuardProfiles)
    \/ \E s \in Sessions : logout(s)

Spec == Init /\ [][Next]_vars


-----------------------------------------------------------------------------
(* Local accounts and the OAuth logins that reconcile onto them: one        *)
(* session, one state value, one external account                           *)

AccountProfiles == ProfilesOf({"a@x.com"})

AccountPatches ==
    {p \in ProfilePatches : p.first_name = NONE /\ p.email = NONE}

NextAccounts ==
    \/ \E state \in {"s1"} : auth_google("S1", state)
    \/ \E state \in {"s1"} : auth_linkedin("S1", state)
    \/ \E state \in {"s1"} : auth_facebook("S1", state)
    \/ \E code \in Codes :
            auth_google_callback("S1", code, "s1", NONE, AccountProfiles)
    \/ \E code \in Codes :
            linkedin_callback("S1", code, "s1", NONE, AccountProfiles)
    \/ \E code \in Codes :
            facebook_callback("S1", code, "s1", NONE, AccountProfiles)
    \/ \E email \in Emails, password \in {"pw1"},
          first_name \in RegisterNames, last_name \in FamilyNames :
            register_user(email, password, first_name, last_name)
    \/ \E email \in {"a@x.com"}, password \in {"pw1"} \cup WrongPasswords :
            login_user(email, password)
    \/ \E i \in Indexes(users), patch \in AccountPatches :
            update_profile(users[i].id, patch)
    \/ \E email \in {"a@x.com"}, code \in {"1000"} :
            forgot_password(email, code, TRUE)

SpecAccounts == Init /\ [][NextAccounts]_vars

-----------------------------------------------------------------------------
(* A profile update that writes an email, between Google logins of one      *)
(* external account                                                         *)

EmailPatches ==
    {p \in ProfilePatches :
        p.first_name = NONE /\ p.mobile_number = NONE /\ p.email # NONE}

NextEmails ==
    \/ \E state \in {"s1"} : auth_google("S1", state)
    \/ \E code \in Codes :
            auth_google_callback("S1", code, "s1", NONE, AccountProfiles)
    \/ \E email \in Emails, password \in {"pw1"},
          first_name \in RegisterNames, last_name \in FamilyNames :
            register_user(email, password, first_name, last_name)
    \/ \E email \in Emails, password \in {"pw1"} :
            login_user(email, password)
    \/ \E i \in Indexes(users), patch \in EmailPatches :
            update_profile(users[i].id, patch)

SpecEmails == Init /\ [][NextEmails]_vars

-----------------------------------------------------------------------------
(* The one-time code of one account, with time *)

NextOtp ==
    \/ \E email \in {"a@x.com"}, password \in {"pw1"},
          first_name \in RegisterNames, last_name \in FamilyNames :
            register_user(email, password, first_name, last_name)
    \/ \E email \in {"a@x.com"}, password \in Passwords :
            login_user(email, password)
    \/ \E email \in Emails, code \in OtpCodes :
            forgot_password(email, code, TRUE)
    \/ \E email \in Emails, code \in OtpCodes :
            forgot_password(email, code, FALSE)
    \/ \E otp \in OtpCodes, new_password \in {"pw2"},
          confirm_password \in {"pw2"} \cup WrongPasswords :
            reset_password(otp, new_password, confirm_password)
    \/ \E email \in {"a@x.com"}, code \in OtpCodes : generate_otp(email, code)
    \/ \E email \in {"a@x.com"}, otp \in OtpCodes : VerifyOtp(email, otp)
    \/ \E d \in TickSteps : Tick(d)

SpecOtp == Init /\ [][NextOtp]_vars

-----------------------------------------------------------------------------
(* The password reset of two accounts *)

NextReset ==
    \/ \E email \in Emails, password \in {"pw1"},
          first_name \in RegisterNames, last_name \in FamilyNames :
            register_user(email, password, first_name, last_name)
    \/ \E email \in Emails, password \in Passwords :
            login_user(email, password)
    \/ \E email \in Emails, code \in OtpCodes :
            forgot_password(email, code, TRUE)
    \/ \E email \in Emails, code \in OtpCodes :
            forgot_password(email, code, FALSE)
    \/ \E otp \in OtpCodes, new_password \in {"pw2"},
          confirm_password \in {"pw2"} \cup WrongPasswords :
            reset_password(otp, new_password, confirm_password)

SpecReset == Init /\ [][NextReset]_vars


-----------------------------------------------------------------------------
(* Codes issued again before they are used, for two accounts; every email   *)
(* is delivered                                                             *)

NextOverwrite ==
    \/ \E email \in Emails, password \in {"pw1"},
          first_name \in RegisterNames, last_name \in FamilyNames :
            register_user(email, password, first_name, last_name)
    \/ \E email \in Emails, password \in Passwords :
            login_user(email, password)
    \/ \E email \in Emails, code \in OtpCodes :
            forgot_password(email, code, TRUE)
    \/ \E otp \in OtpCodes, new_password \in {"pw2"},
          confirm_password \in {"pw2"} :
            reset_password(otp, new_password, confirm_password)

SpecOverwrite == Init /\ [][NextOverwrite]_vars

-----------------------------------------------------------------------------
(* Local logins to accounts that a provider login created: a login submits  *)
(* any password, the strings random.randint can produce included            *)

NextOAuthPassword ==
    \/ \E state \in {"s1"} : auth_google("S1", state)
    \/ \E state \in {"s1"} : auth_linkedin("S1", state)
    \/ \E state \in {"s1"} : auth_facebook("S1", state)
    \/ \E code \in Codes :
            auth_google_callback("S1", code, "s1", NONE, AccountProfiles)
    \/ \E code \in Codes :
            linkedin_callback("S1", code, "s1", NONE, AccountProfiles)
    \/ \E code \in Codes :
            facebook_callback("S1", code, "s1", NONE, AccountProfiles)
    \/ \E email \in {"b@x.com"}, password \in {"pw1"},
          first_name \in RegisterNames, last_name \in FamilyNames :
            register_user(email, password, first_name, last_name)
    \/ \E email \in Emails,
          password \in {"pw1"} \cup WrongPasswords \cup RandomPasswords :
            login_user(email, password)

SpecOAuthPassword == Init /\ [][NextOAuthPassword]_vars

-----------------------------------------------------------------------------
(* Tokens presented after the account or the session changed, within their *)
(* lifetime                                                                 *)

\* The profile update that moves an account to another email.
MovePatches == {p \in EmailPatches : p.email = "b@x.com"}

NextStateless ==
    \/ \E email \in {"a@x.com"}, password \in {"pw1"},
          first_name \in RegisterNames, last_name \in FamilyNames :
            register_user(email, password, first_name, last_name)
    \/ \E email \in {"a@x.com"}, password \in Passwords :
            login_user(email, password)
    \/ \E i \in Indexes(users), patch \in MovePatches :
            update_profile(users[i].id, patch)
    \/ \E email \in {"a@x.com"}, code \in {"1000"} :
            forgot_password(email, code, TRUE)
    \/ \E otp \in {"1000"}, new_password \in {"pw2"},
          confirm_password \in {"pw2"} :
            reset_password(otp, new_password, confirm_password)
    \/ \E state \in {"s1"} : auth_google("S1", state)
    \/ \E code \in Codes :
            auth_google_callback("S1", code, "s1", NONE, AccountProfiles)
    \/ logout("S1")
    \/ \E token \in IssuedTokens : RouteCall(token)

SpecStateless == Init /\ [][NextStateless]_vars

-----------------------------------------------------------------------------
(* One session that logs in with the providers, asks for its profile and    *)
(* logs out                                                                 *)

NextLogout ==
    \/ \E state \in {"s1"} : auth_google("S1", state)
    \/ \E state \in {"s1"} : auth_linkedin("S1", state)
    \/ \E state \in {"s1"} : auth_facebook("S1", state)
    \/ \E code \in Codes, state \in PresentedStates :
            auth_google_callback("S1", code, state, NONE, GuardProfiles)
    \/ \E code \in Codes, state \in PresentedStates :
            linkedin_callback("S1", code, state, NONE, GuardProfiles)
    \/ \E code \in Codes, state \in PresentedStates :
            facebook_callback("S1", code, state, NONE, GuardProfiles)
    \/ profile("S1")
    \/ logout("S1")

SpecLogout == Init /\ [][NextLogout]_vars

-----------------------------------------------------------------------------
(* Two reset-password requests of one account, interleaved *)

NextRace ==
    \/ \E email \in {"a@x.com"}, password \in {"pw1"},
          first_name \in RegisterNames, last_name \in FamilyNames :
            register_user(email, password, first_name, last_name)
    \/ \E email \in {"a@x.com"}, password \in Passwords \cup WrongPasswords :
            login_user(email, password)
    \/ \E email \in {"a@x.com"}, code \in OtpCodes :
            forgot_password(email, code, TRUE)
    \/ \E r \in Requests, otp \in OtpCodes, new_password \in ResetPasswords,
          confirm_password \in ResetPasswords :
            reset_password_lookup(r, otp, new_password, confirm_password)
    \/ \E r \in Requests : reset_password_update(r)

SpecRace == Init /\ [][NextRace]_vars

-----------------------------------------------------------------------------
(* Logins after registrations, with profile updates that write an email and *)
(* a password reset in between                                              *)

NextLogin ==
    \/ \E email \in Emails, password \in {"pw1"},
          first_name \in RegisterNames, last_name \in FamilyNames :
            register_user(email, password, first_name, last_name)
    \/ \E email \in Emails, password \in Passwords \cup WrongPasswords :
            login_user(email, password)
    \/ \E i \in Indexes(users), patch \in EmailPatches :
            update_profile(users[i].id, patch)
    \/ \E email \in {"a@x.com"}, code \in {"1000"} :
            forgot_password(email, code, TRUE)
    \/ \E otp \in {"1000"}, new_password \in {"pw2"},
          confirm_password \in {"pw2"} :
            reset_password(otp, new_password, confirm_password)

SpecLogin == Init /\ [][NextLogin]_vars

-----------------------------------------------------------------------------
(* Tokens issued and verified over time *)

\* What the caller holds: nothing before the first token is issued.
Held ==
    IF resp.op \in {"issue_token", "verify_token", "current_user"}
    THEN Presentable(resp.token) ELSE {}

NextTokens ==
    \/ \E user_data \in ClaimsMaps, expires_delta \in Deltas :
            IssueToken(user_data, expires_delta)
    \/ \E token \in Held : VerifyToken(token)
    \/ \E token \in Held : \E authorization \in Headers(token) :
            CurrentUser(authorization)
    \/ \E d \in TickSteps : Tick(d)

SpecTokens == Init /\ [][NextTokens]_vars

-----------------------------------------------------------------------------
(* The documents of two callers *)

NextDocuments ==
    \/ \E caller \in Callers, body \in DocumentBodies :
            create_document(caller, body)
    \/ \E caller \in Callers, page \in Pages :
            read_documents(caller, page.skip, page.limit)
    \/ \E caller \in Callers, document_id \in DocumentIds :
            read_document(caller, document_id)
    \/ \E caller \in Callers, document_id \in DocumentIds,
          patch \in DocumentPatches :
            update_document(caller, document_id, patch)
    \/ \E caller \in Callers, document_id \in DocumentIds :
            delete_document(caller, document_id)
    \/ \E caller \in Callers, scan_type \in ScanTypes, page \in Pages :
            get_documents_by_type(caller, scan_type, page.skip, page.limit)
    \/ \E caller \in Callers, query \in Queries, page \in Pages :
            search_documents(caller, query, page.skip, page.limit)

SpecDocuments == Init /\ [][NextDocuments]_vars

-----------------------------------------------------------------------------
(* One session that starts the flows again before it calls back; every      *)
(* start gets a state that was not issued before                            *)

NextRestart ==
    \/ auth_google("S1", generate_oauth_state(nstarts))
    \/ auth_linkedin("S1", generate_oauth_state(nstarts))
    \/ auth_facebook("S1", generate_oauth_state(nstarts))
    \/ \E code \in Codes, state \in PresentedStates :
            auth_google_callback("S1", code, state, NONE, GuardProfiles)
    \/ \E code \in Codes, state \in PresentedStates,
          error \in ProviderErrors \cup {NONE} :
            linkedin_callback("S1", code, state, error, GuardProfiles)
    \/ \E code \in Codes, state \in PresentedStates,
          error \in ProviderErrors \cup {NONE} :
            facebook_callback("S1", code, state, error, GuardProfiles)

SpecRestart == Init /\ [][NextRestart]_vars

-----------------------------------------------------------------------------
(* Properties of the OAuth state guard and of the callbacks *)

\* The pending state a session holds for a provider.
HeldState(sess, provider) ==
    CASE provider = "google" -> sess.google_oauth_state
      [] provider = "linkedin" -> sess.linkedin_oauth_state
      [] provider = "facebook" -> sess.facebook_oauth_state

\* The step handles a callback request; resp' describes it.
IsCallback(r) == r.op = "callback"

SessionUsersUnchanged == \A s \in Sessions : session'[s].user = session[s].user

\* C1: a callback of any of the three providers reaches the token exchange
\* only when the caller's session holds a state for that provider and the
\* presented state equals it; when no state is held, or the presented one
\* differs, the answer is 400, no token-exchange or profile call is made, the
\* user store is unchanged and no session's logged-in user is set.
C1_StateGuardStep ==
    IsCallback(resp') =>
        LET held == HeldState(session[resp'.session], resp'.provider)
            matches == held # NONE /\ held = resp'.state
        IN  /\ resp'.exchanges > 0 => matches
            /\ ~matches =>
                  /\ resp'.status = 400
                  /\ resp'.exchanges = 0
                  /\ resp'.profile_calls = 0
                  /\ users' = users
                  /\ SessionUsersUnchanged

C1_StateGuard == [][C1_StateGuardStep]_vars

\* A callback was rejected at the state check: it presented a state, and its
\* session holds another one for the provider.
C1_Witness ==
    /\ IsCallback(resp)
    /\ resp.detail = "state_mismatch"
    /\ resp.state # NONE
    /\ HeldState(session[resp.session], resp.provider) \in States \ {resp.state}

\* C2: state tokens are isolated per provider and per session.  A start
\* endpoint stores the state it issues under its own provider, in the
\* caller's session, and nowhere else; and when the next request presents
\* that state to another provider's callback, or from another session, whose
\* own held state is absent or different, it does not pass the state check.
C2_IsolationStep ==
    /\ resp'.op = "start" =>
          /\ HeldState(session'[resp'.session], resp'.provider) = resp'.state
          /\ \A s \in Sessions, q \in Providers :
                (s # resp'.session \/ q # resp'.provider)
                   => HeldState(session'[s], q) = HeldState(session[s], q)
    /\ ( /\ resp.op = "start"
         /\ IsCallback(resp')
         /\ resp'.state = resp.state
         /\ (resp'.session # resp.session \/ resp'.provider # resp.provider)
         /\ HeldState(session[resp'.session], resp'.provider) # resp.state )
       => /\ resp'.exchanges = 0
          /\ resp'.status = 400

C2_Isolation == [][C2_IsolationStep]_vars

\* The state just issued to one provider in one session was presented to
\* another provider's callback and did not pass.
C2_Witness ==
    /\ IsCallback(resp)
    /\ resp.detail = "state_mismatch"
    /\ \E s \in Sessions, q \in Providers :
          /\ (s # resp.session \/ q # resp.provider)
          /\ HeldState(session[s], q) = resp.state
    /\ HeldState(session[resp.session], resp.provider) # resp.state

\* C3: for every provider, a callback request that carries a provider-supplied
\* `error` parameter is answered with the provider-denied error, with no state
\* check against the session, no token exchange and no profile call, whatever
\* code and state it carries.
C3_ErrorFirst ==
    (IsCallback(resp) /\ resp.error # NONE) =>
        /\ resp.detail = "denied"
        /\ resp.state_checks = 0
        /\ resp.exchanges = 0
        /\ resp.profile_calls = 0

\* C4: a callback that completes returns an application identity token whose
\* subject is the reconciled local user id and whose email is the profile
\* email, never the provider's access token, and sets the session's logged-in
\* user to that user id.
C4_ApplicationToken ==
    (IsCallback(resp) /\ resp.status = 200) =>
        /\ resp.token # ProviderAccessToken(resp.provider)
        /\ verify_access_token(resp.token, now).ok
        /\ resp.token[2].sub = resp.user_id
        /\ resp.token[2].email = resp.profile[1].email
        /\ resp.user_id = users[FindByEmail(users, resp.profile[1].email)].id
        /\ session[resp.session].user # <<>>
        /\ session[resp.session].user[1].id = resp.user_id

\* C5: a callback that fails at the provider-error check, the state check,
\* the code exchange, the profile fetch or the missing-email check leaves the
\* user store and every session's logged-in user as they were.
FailureStages ==
    {"denied", "state_mismatch", "exchange_http_error", "exchange_no_token",
     "profile_http_error", "missing_email"}

C5_FailureFrameStep ==
    (IsCallback(resp') /\ resp'.detail \in FailureStages) =>
        /\ users' = users
        /\ SessionUsersUnchanged

C5_FailureFrame == [][C5_FailureFrameStep]_vars

\* A callback failed at the missing-email check while the store held a user
\* and a session was logged in.
C5_Witness ==
    /\ IsCallback(resp)
    /\ resp.detail = "missing_email"
    /\ Len(users) > 0
    /\ \E s \in Sessions : session[s].user # <<>>

\* C6: once a callback of provider P in session S has completed with state s,
\* the callback for P in S that follows it with the same s, no start request
\* in between, is rejected at the state check.
C6_ConsumedStep ==
    ( /\ IsCallback(resp) /\ resp.status = 200
      /\ IsCallback(resp')
      /\ resp'.provider = resp.provider
      /\ resp'.session = resp.session
      /\ resp'.state = resp.state
      /\ resp'.error = NONE )
    => resp'.detail = "state_mismatch"

C6_Consumed == [][C6_ConsumedStep]_vars


-----------------------------------------------------------------------------
(* Properties of the account reconciliation *)

WithEmail(us, email) == {i \in Indexes(us) : us[i].email = email}

\* C7: the reconciliation of a provider callback is idempotent: run twice in
\* sequence with the same profile it yields the same local user id, leaves
\* exactly one user record with that email, and the store after the second
\* run equals the store after the first.
C7_IdempotentStep ==
    (IsCallback(resp') /\ resp'.status = 200 /\ resp'.repeat) =>
        /\ resp'.user_id = resp.user_id
        /\ users' = users
        /\ Cardinality(WithEmail(users', resp'.profile[1].email)) = 1

C7_Idempotent == [][C7_IdempotentStep]_vars

\* C8: an OAuth login that reconciles onto an existing record leaves its id,
\* email, password hash, mobile number and pending OTP as they were, and
\* leaves every other record alone, so that every local login that succeeded
\* before it succeeds after it.
C8_ExistingStep ==
    (IsCallback(resp') /\ resp'.status = 200
        /\ FindByEmail(users, resp'.profile[1].email) # 0) =>
        LET email == resp'.profile[1].email
            i == FindByEmail(users, email)
        IN  /\ Len(users') = Len(users)
            /\ users'[i].id = users[i].id
            /\ users'[i].email = users[i].email
            /\ users'[i].password = users[i].password
            /\ users'[i].mobile_number = users[i].mobile_number
            /\ users'[i].temp_password = users[i].temp_password
            /\ users'[i].otp_expiration = users[i].otp_expiration
            /\ \A j \in Indexes(users) : j # i => users'[j] = users[j]
            /\ \A pw \in Passwords \cup WrongPasswords \cup RandomPasswords :
                  login_status(users, email, pw) = 200
                     => login_status(users', email, pw) = 200

C8_Existing == [][C8_ExistingStep]_vars

\* A provider login landed on a registered account that has a mobile number
\* and a pending OTP, and overwrote its name.
C8_Witness ==
    /\ IsCallback(resp)
    /\ resp.status = 200
    /\ LET u == users[FindByEmail(users, resp.profile[1].email)]
       IN  /\ u.password = hash_password("pw1")
           /\ u.mobile_number # NONE
           /\ u.temp_password # NoHash
           /\ u.auth_provider = resp.provider
           /\ u.first_name = "Bea"
           /\ login_status(users, u.email, "pw1") = 200

-----------------------------------------------------------------------------
(* Properties of the one-time codes *)

\* C9: a pending OTP is usable only before its expiration: a reset-password
\* request succeeds only within OTP_TTL minutes of the issue of the code it
\* presents, and verify_otp accepts a code only up to the stored expiration.
C9_Expiry ==
    /\ (resp.op = "reset_password" /\ resp.status = 200) =>
          \A r \in otpIssued :
             r[1] = resp.user_id => resp.at <= r[3] + OTP_TTL
    /\ (resp.op = "verify_otp" /\ resp.result) =>
          resp.at <= users[FindByEmail(users, resp.email)].otp_expiration

\* C10: an OTP is single-use in sequence: a successful reset-password clears
\* the pending OTP of its user, and the reset-password request that follows it
\* with the same code fails with the invalid-OTP error and changes no
\* password.
C10_SingleUseStep ==
    /\ (resp'.op = "reset_password" /\ resp'.status = 200) =>
          users'[FindById(users', resp'.user_id)].temp_password = NoHash
    /\ ( /\ resp.op = "reset_password" /\ resp.status = 200
         /\ resp'.op = "reset_password"
         /\ resp'.otp = resp.otp
         /\ resp'.detail # "passwords_do_not_match" )
       => /\ resp'.status = 400
          /\ resp'.detail = "invalid_otp"
          /\ users' = users

C10_SingleUse == [][C10_SingleUseStep]_vars

\* C11: a pending OTP is consumed once under concurrency: of two
\* reset-password requests that present the same valid code and interleave
\* (the second does its lookup before the first does its update), at most one
\* reports success.
C11_ConsumedOnce ==
    \A r, q \in Requests :
        ( /\ r # q
          /\ inflight[r].pc = "done" /\ inflight[q].pc = "done"
          /\ inflight[r].otp = inflight[q].otp
          /\ inflight[q].overlapped )
        => ~(inflight[r].status = 200 /\ inflight[q].status = 200)

\* C12: a failed OTP check does not consume the pending code: a
\* reset-password request that fails (wrong code, or new_password different
\* from confirm_password) leaves every user record unchanged, the
\* reset-password request that follows it with a pending code succeeds, and
\* verify_otp never writes to the store.
C12_NoConsumeStep ==
    /\ (resp'.op = "reset_password" /\ resp'.status # 200) => users' = users
    /\ resp'.op = "verify_otp" => users' = users
    /\ ( /\ resp.op = "reset_password" /\ resp.status # 200
         /\ resp'.op = "reset_password"
         /\ resp'.detail # "passwords_do_not_match"
         /\ FindByTempPassword(users, hash_password(resp'.otp)) # 0 )
       => LET i == FindByTempPassword(users, hash_password(resp'.otp))
          IN  /\ resp'.status = 200
              /\ resp'.user_id = users[i].id
              /\ users'[i].temp_password = NoHash

C12_NoConsume == [][C12_NoConsumeStep]_vars

\* A reset-password request with a wrong code failed while a user had a code
\* pending.
C12_Witness ==
    /\ resp.op = "reset_password"
    /\ resp.detail = "invalid_otp"
    /\ \E i \in Indexes(users) : users[i].temp_password # NoHash

-----------------------------------------------------------------------------
(* Properties of the local credentials *)

\* C13: a registration of an email that already has a user record is
\* answered 400 and leaves the store as it was: it inserts no record and does
\* not alter the password or the names of the existing one.
C13_DuplicateStep ==
    (resp'.op = "register" /\ FindByEmail(users, resp'.email) # 0) =>
        /\ resp'.status = 400
        /\ resp'.detail = "email_registered"
        /\ users' = users

C13_Duplicate == [][C13_DuplicateStep]_vars

\* A registration was refused for an email whose record holds another
\* password than the one the record was registered with.
C13_Witness ==
    /\ resp.op = "register"
    /\ resp.status = 400
    /\ LET u == users[FindByEmail(users, resp.email)]
       IN  /\ u.password = hash_password("pw2")
           /\ \E reg \in registered :
                 reg[1] = u.email /\ reg[2] = "pw1" /\ reg[3] = u.id

\* The login request of the step presents the email and the password of a
\* registration whose record still holds the password it was registered with.
LoginOf(reg) ==
    /\ resp'.op = "login"
    /\ resp'.email = reg[1]
    /\ resp'.password = reg[2]
    /\ users[FindById(users, reg[3])].password = hash_password(reg[2])

\* The login succeeded with a token whose subject is the id of the stored
\* record of the email, which is the id the registration returned.
LoggedInAs(reg) ==
    /\ resp'.status = 200
    /\ verify_access_token(resp'.token, now).ok
    /\ resp'.token[2].sub = users[FindByEmail(users, reg[1])].id
    /\ resp'.token[2].sub = reg[3]

\* C14 as stated: after a successful registration with email e and password
\* p, a login with (e, p) succeeds and returns a token whose subject is the
\* id of the stored record for e and the id the registration returned, as
\* long as no reset-password changed the password in between.
C14_LoginAfterRegisterStep ==
    \A reg \in registered : LoginOf(reg) => LoggedInAs(reg)

C14_LoginAfterRegisterAmendedStep ==
    \A reg \in registered :
        ( /\ LoginOf(reg)
          /\ WithEmail(users, reg[1]) = {FindById(users, reg[3])} )
        => LoggedInAs(reg)

-----------------------------------------------------------------------------
(* Properties of the identity tokens *)

\* The claims a verification is to return: the claims of the issue with the
\* "exp" entry set to the expiry.
WithExpiry(user_data, exp) ==
    [k \in DOMAIN user_data \cup {"exp"} |->
        IF k = "exp" THEN exp ELSE user_data[k]]

C16_CurrentUser ==
    resp.op = "current_user" =>
        LET h == resp.authorization
            wellformed == Len(h) >= 2 /\ h[1] = "Bearer"
        IN  /\ ~wellformed =>
                  /\ resp.status = 401
                  /\ resp.verify_calls = 0
                  /\ resp.current_user = <<>>
            /\ wellformed =>
                  LET v == verify_access_token(h[2], resp.at) IN
                  /\ resp.verify_calls = 1
                  /\ ~v.ok =>
                        /\ resp.status = 401
                        /\ resp.detail = v.error
                        /\ resp.detail \in {TOKEN_EXPIRED, INVALID_TOKEN}
                        /\ resp.current_user = <<>>
                  /\ v.ok =>
                        /\ resp.status = 200
                        /\ h[2] = resp.token
                        /\ resp.current_user[1].id = Get(resp.user_data, "sub")
                        /\ resp.current_user[1].email = Get(resp.user_data, "email")
            /\ resp.current_user # <<>> => resp.status = 200

\* A request came with another scheme in front of a token that verifies, and
\* was refused without a verification.
C16_Witness ==
    /\ resp.op = "current_user"
    /\ Len(resp.authorization) = 2
    /\ resp.authorization[1] # "Bearer"
    /\ verify_access_token(resp.authorization[2], resp.at).ok
    /\ resp.status = 401

-----------------------------------------------------------------------------
(* Properties of the document store *)

ReadOps ==
    {"read_documents", "read_document", "get_documents_by_type",
     "search_documents"}

\* C17: no read operation (list, get by id, list by type, search) returns to
\* a caller a document whose user_id differs from the caller's id; a get by
\* the _id of a document owned by someone else returns none.
C17_OwnReadsOnly ==
    resp.op \in ReadOps =>
        /\ \A i \in 1 .. Len(resp.docs) :
              /\ resp.docs[i].user_id = resp.caller
              /\ \E j \in 1 .. Len(documents) : documents[j] = resp.docs[i]
        /\ ( /\ resp.op = "read_document"
             /\ \E j \in 1 .. Len(documents) :
                   /\ documents[j].id = resp.document_id
                   /\ documents[j].user_id # resp.caller )
           => (resp.docs = <<>> /\ resp.status = 404)

\* A caller asked by its _id for a document that exists under another owner,
\* while owning a document itself.
C17_Witness ==
    /\ resp.op = "read_document"
    /\ resp.status = 404
    /\ \E j, k \in 1 .. Len(documents) :
          /\ documents[j].id = resp.document_id
          /\ ~documents[j].deleted
          /\ documents[j].user_id # resp.caller
          /\ ~documents[k].deleted
          /\ documents[k].user_id = resp.caller

\* The request of the step is an update or a delete that got as far as the
\* store operation.
ReachesStore ==
    /\ resp'.op \in {"update_document", "delete_document"}
    /\ resp'.detail \notin {"invalid_id", "no_fields"}

NotOwnedOrAbsent ==
    \A j \in 1 .. Len(documents) :
        documents[j].id = resp'.document_id =>
            (documents[j].deleted \/ documents[j].user_id # resp'.caller)

\* C18: an update or a delete of a document by id is answered 404 both when
\* the document does not exist and when it is owned by another user, with
\* the same response, and leaves the store unchanged; and no request
\* modifies or deletes a document whose user_id differs from the caller's.
C18_NotFoundOrUnauthorizedStep ==
    /\ (ReachesStore /\ NotOwnedOrAbsent) =>
          /\ resp' = [NoResp EXCEPT
                         !.op = resp'.op, !.caller = resp'.caller,
                         !.document_id = resp'.document_id, !.at = now,
                         !.status = 404, !.detail = "not_found_or_unauthorized"]
          /\ documents' = documents
    /\ Len(documents') >= Len(documents)
    /\ \A j \in 1 .. Len(documents) :
          documents[j].user_id # resp'.caller => documents'[j] = documents[j]

C18_NotFoundOrUnauthorized == [][C18_NotFoundOrUnauthorizedStep]_vars

\* An update or a delete named a live document of another owner and was
\* answered 404.
C18_Witness ==
    /\ resp.op \in {"update_document", "delete_document"}
    /\ resp.status = 404
    /\ \E j \in 1 .. Len(documents) :
          /\ documents[j].id = resp.document_id
          /\ ~documents[j].deleted
          /\ documents[j].user_id # resp.caller

-----------------------------------------------------------------------------
(* Properties of the error responses *)

\* C19: every OAuth-flow-specific failure is answered 400 by each of the
\* three callbacks: provider denied, state mismatch, token exchange failed
\* (a non-2xx answer or an answer without an access token), profile fetch
\* failed, and a profile without an email; none is answered 500.
C19_FlowFailures400 ==
    (IsCallback(resp) /\ resp.detail \in FailureStages) => resp.status = 400

\* C20: local-credential failures are reported generically: the response of
\* a failed login is the same whether the email has no record or the
\* password is wrong, and the response of a reset-password with a wrong code
\* is the same whatever the store holds; each is determined by the request.
C20_Generic ==
    /\ (resp.op = "login" /\ resp.status # 200) =>
          resp = [NoResp EXCEPT
                     !.op = "login", !.status = 400,
                     !.detail = "invalid_email_or_password",
                     !.email = resp.email, !.password = resp.password]
    /\ (resp.op = "reset_password" /\ resp.detail = "invalid_otp") =>
          resp = [NoResp EXCEPT
                     !.op = "reset_password", !.status = 400,
                     !.detail = "invalid_otp", !.otp = resp.otp, !.at = resp.at]

\* A login failed on the password of an email that has a record, while the
\* other email has none.
C20_Witness ==
    /\ resp.op = "login"
    /\ resp.status = 400
    /\ FindByEmail(users, resp.email) # 0
    /\ \E email \in Emails : FindByEmail(users, email) = 0

-----------------------------------------------------------------------------
(* Properties of the user store *)

\* C21: email is a unique key of the user store: in every state reached by
\* register, OAuth callback and profile-update requests, no two user records
\* have the same email.
C21_UniqueEmail ==
    \A i, j \in Indexes(users) : i # j => users[i].email # users[j].email

-----------------------------------------------------------------------------
(* Properties of the flows over several requests *)

\* C22: only the state issued last is accepted.  A start request leaves its
\* state as the one the session holds for the provider, whatever was pending;
\* the callback that follows a start of the same provider in the same session
\* is rejected with 400 before the exchange when it presents another state
\* (an earlier one included) and passes the state check when it presents the
\* state of that start.  A session holds one state or none per provider.
C22_LastIssuedStep ==
    /\ (resp'.op = "start" /\ nstarts' = nstarts + 1) =>
          HeldState(session'[resp'.session], resp'.provider) = resp'.state
    /\ ( /\ IsCallback(resp')
         /\ resp.op = "start"
         /\ resp.provider = resp'.provider
         /\ resp.session = resp'.session ) =>
          /\ resp'.state # resp.state =>
                (resp'.status = 400 /\ resp'.exchanges = 0)
          /\ (resp'.state = resp.state /\ resp'.state_checks = 1) =>
                (resp'.detail # "state_mismatch" /\ resp'.exchanges = 1)
    /\ \A s \in Sessions, provider \in Providers :
          HeldState(session'[s], provider) \in
              {NONE} \cup {generate_oauth_state(n) : n \in 0 .. MaxStarts} \cup States

C22_LastIssued == [][C22_LastIssuedStep]_vars

\* Google was started twice by the session, with s1 and then S1, and the
\* callback that presented s1 was rejected at the state check.
C22_Witness ==
    /\ nstarts = 2
    /\ session["S1"].google_oauth_state = "S1"
    /\ session["S1"].linkedin_oauth_state = NONE
    /\ session["S1"].facebook_oauth_state = NONE
    /\ IsCallback(resp)
    /\ resp.provider = "google"
    /\ resp.state = "s1"
    /\ resp.detail = "state_mismatch"
    /\ resp.exchanges = 0

\* C23: within one callback request the steps happen in the order state
\* check, code exchange, profile fetch, account upsert, token issue, session
\* write, each at most once: the exchange is made only past the state check,
\* the profile endpoint is called only after the exchange returned an access
\* token, the user store is written only after the profile returned an
\* email, the session's user is written only with the response that carries
\* the token of the upserted record, and a provider call that failed is not
\* made again.
C23_OrderStep ==
    IsCallback(resp') =>
        /\ resp'.state_checks <= 1
        /\ resp'.exchanges <= 1
        /\ resp'.profile_calls <= 1
        /\ resp'.exchanges = 1 =>
              /\ resp'.state_checks = 1
              /\ resp'.detail \notin {"denied", "missing_params", "state_mismatch"}
        /\ resp'.profile_calls = 1 =>
              /\ resp'.exchanges = 1
              /\ resp'.detail \notin {"exchange_http_error", "exchange_no_token"}
        /\ users' # users =>
              /\ resp'.profile_calls = 1
              /\ resp'.profile # <<>>
              /\ resp'.profile[1].email # NONE
        /\ resp'.token # <<>> =>
              /\ FindById(users', resp'.user_id) # 0
              /\ users'[FindById(users', resp'.user_id)].email = resp'.profile[1].email
        /\ session'[resp'.session].user # session[resp'.session].user =>
              /\ resp'.token # <<>>
              /\ session'[resp'.session].user[1].id = resp'.user_id
        /\ resp'.detail \in {"exchange_http_error", "exchange_no_token"} =>
              /\ resp'.exchanges = 1
              /\ resp'.profile_calls = 0
              /\ users' = users
        /\ resp'.detail \in {"profile_http_error", "missing_email"} =>
              /\ resp'.profile_calls = 1
              /\ users' = users

C23_Order == [][C23_OrderStep]_vars

\* A LinkedIn callback went through every step and created the account.
C23_Witness ==
    /\ IsCallback(resp)
    /\ resp.provider = "linkedin"
    /\ resp.status = 200
    /\ resp.state_checks = 1
    /\ resp.exchanges = 1
    /\ resp.profile_calls = 1
    /\ FindById(users, resp.user_id) # 0
    /\ session[resp.session].user # <<>>
    /\ resp.token # <<>>

-----------------------------------------------------------------------------
(* Properties of the one-time codes over several requests *)

\* C24: issuing a new code overwrites the pending one: when a successful
\* forgot-password request for an email produced c2 and replaced the pending
\* code c1 of an earlier one (c1 different from c2), a reset-password that
\* presents c1 fails.
C24_OverwrittenStep ==
    ( /\ resp.op = "forgot_password"
      /\ resp.status = 200
      /\ resp.replaced # NoHash
      /\ resp.replaced # hash_password(resp.otp)
      /\ resp'.op = "reset_password"
      /\ hash_password(resp'.otp) = resp.replaced
      /\ resp'.at = now ) =>
        (resp'.status = 400 /\ users' = users)

C24_Overwritten == [][C24_OverwrittenStep]_vars

-----------------------------------------------------------------------------
(* Properties of the profile update and of the local passwords *)

\* C25: a profile update is a patch: it writes no field of the record but
\* first_name, last_name, email and mobile_number, and no other record; a
\* request without any field is answered with a 400 validation error and
\* leaves the store unchanged.
C25_PatchStep ==
    resp'.op = "update_profile" =>
        /\ Len(users') = Len(users)
        /\ \A i \in Indexes(users) :
              /\ users'[i].id # resp'.user_id => users'[i] = users[i]
              /\ users'[i] = [users[i] EXCEPT
                                 !.first_name = users'[i].first_name,
                                 !.last_name = users'[i].last_name,
                                 !.email = users'[i].email,
                                 !.mobile_number = users'[i].mobile_number]
        /\ resp'.detail = "no_fields" =>
              (resp'.status = 400 /\ users' = users)

C25_Patch == [][C25_PatchStep]_vars

\* The account was created by a provider callback, not by a registration.
CreatedByCallback(u) == \A reg \in registered : reg[3] # u.id

\* C26: the local password generated for an account that an OAuth login
\* created is never usable: while no reset-password has set a password for
\* it, no local login for its email succeeds, whatever password is submitted.
C26_NeverUsable ==
    ( /\ resp.op = "login"
      /\ FindByEmail(users, resp.email) # 0
      /\ CreatedByCallback(users[FindByEmail(users, resp.email)]) ) =>
        resp.status # 200

\* C27: a successful reset-password changes the password of the user to whom
\* the presented code was issued and of nobody else: whichever holder of the
\* pending code presented it, no other record has its password changed or
\* its pending code cleared, two users holding the same code included.
C27_OwnerOnlyStep ==
    (resp'.op = "reset_password" /\ resp'.status = 200 /\ users' # users) =>
        \A a \in Indexes(users) :
            users[a].temp_password = hash_password(resp'.otp) =>
                \A b \in Indexes(users) \ {a} :
                    /\ users'[b].password = users[b].password
                    /\ users'[b].temp_password = users[b].temp_password

C27_OwnerOnly == [][C27_OwnerOnlyStep]_vars

-----------------------------------------------------------------------------
(* Properties of the identity tokens over several requests *)

\* C28: identity tokens are stateless: a token issued at a registration, a
\* login or an OAuth callback is accepted by the current-user extraction in
\* every later state before its expiry, with the subject and the email it
\* was issued for; a password reset, a logout or a change of the email does
\* not revoke it.
C28_Stateless ==
    resp.op = "route_call" =>
        LET token == resp.authorization[2] IN
        resp.at < token[2].exp =>
            /\ resp.status = 200
            /\ resp.current_user =
                  <<[id |-> token[2].sub, email |-> token[2].email]>>

\* The token of a registration was accepted on a route after the record's
\* password was reset and its email changed, and after the session, which a
\* Google login had signed in, was logged out.
C28_Witness ==
    /\ resp.op = "route_call"
    /\ resp.status = 200
    /\ session["S1"].user = <<>>
    /\ \E i \in Indexes(users) : users[i].auth_provider = "google"
    /\ \E reg \in registered :
          /\ reg[4] = resp.authorization[2]
          /\ users[FindById(users, reg[3])].password # hash_password(reg[2])
          /\ users[FindById(users, reg[3])].email # reg[1]

-----------------------------------------------------------------------------
(* Properties of the session *)

\* C29: logout clears the session's logged-in user and the pending state of
\* the three providers and nothing in the user store; /profile reports
\* authenticated exactly when the session holds a user, so not after a
\* logout; and the callback of any provider that follows a logout of its
\* session is rejected with 400 before the exchange whatever state it
\* presents, as is every callback of a session that holds no state for the
\* provider.
C29_LogoutStep ==
    /\ resp'.op = "logout" =>
          /\ session'[resp'.session] = NoSession
          /\ \A s \in Sessions \ {resp'.session} : session'[s] = session[s]
          /\ users' = users
    /\ resp'.op = "profile" =>
          /\ resp'.result <=> session[resp'.session].user # <<>>
          /\ (resp.op = "logout" /\ resp.session = resp'.session) => ~resp'.result
    /\ IsCallback(resp') =>
          /\ (resp.op = "logout" /\ resp.session = resp'.session) =>
                (resp'.status = 400 /\ resp'.exchanges = 0)
          /\ HeldState(session[resp'.session], resp'.provider) = NONE =>
                (resp'.status = 400 /\ resp'.exchanges = 0)

C29_Logout == [][C29_LogoutStep]_vars

\* The session had logged in and then logged out, and a callback presenting
\* the state issued before the logout was rejected at the state check.
C29_Witness ==
    /\ IsCallback(resp)
    /\ resp.status = 400
    /\ resp.detail = "state_mismatch"
    /\ resp.state = "s1"
    /\ users # <<>>
    /\ session["S1"] = NoSession

-----------------------------------------------------------------------------
(* Properties of the document store *)

\* C30: every document is owned by the authenticated user who created it:
\* create_document sets user_id to the caller's id whatever user_id the body
\* carries, and no request changes the user_id or the _id of a document
\* that is in the store, an update whose body carries a user_id included.
C30_OwnerStep ==
    /\ Len(documents') >= Len(documents)
    /\ \A i \in 1 .. Len(documents) :
          /\ documents'[i].id = documents[i].id
          /\ documents'[i].user_id = documents[i].user_id
    /\ \A i \in (Len(documents) + 1) .. Len(documents') :
          /\ resp'.op = "create_document"
          /\ documents'[i].user_id = resp'.caller
          /\ documents'[i].user_id \in Callers

C30_Owner == [][C30_OwnerStep]_vars

\* A document was created with a body that carried the other caller's id;
\* it is owned by its creator.
C30_Witness ==
    /\ resp.op = "create_document"
    /\ resp.status = 201
    /\ resp.user_id \in Callers \ {resp.caller}
    /\ documents[resp.document_id].user_id = resp.caller

-----------------------------------------------------------------------------
(* Properties of forgot-password and of verify_otp *)

\* C31: forgot-password for an email without a record answers 400, writes
\* nothing and sends no message; for an email with a record it stores the
\* hash of the new code, in that record alone, and then sends the message:
\* when the delivery fails the request ends with a server error and the new
\* hash is stored all the same, and the code that was pending for the
\* account before is no longer accepted for it: a reset-password presenting
\* that code does not touch the account.
C31_ForgotStep ==
    /\ resp'.op = "forgot_password" =>
          LET i == FindByEmail(users, resp'.email) IN
          /\ i = 0 =>
                /\ resp'.status = 400
                /\ resp'.detail = "email_not_found"
                /\ resp'.mails = 0
                /\ users' = users
          /\ i # 0 =>
                /\ resp'.mails = 1
                /\ resp'.status \in {200, 500}
                /\ resp'.status = 500 <=> resp'.detail = "send_failed"
                /\ users' = [users EXCEPT
                                ![i].temp_password = hash_password(resp'.otp)]
    /\ ( /\ resp.op = "forgot_password"
         /\ resp.status = 500
         /\ resp.replaced \notin {NoHash, hash_password(resp.otp)}
         /\ resp'.op = "reset_password"
         /\ hash_password(resp'.otp) = resp.replaced ) =>
          LET i == FindById(users, resp.user_id) IN
          /\ users[i].temp_password = hash_password(resp.otp)
          /\ users'[i] = users[i]
          /\ resp'.user_id # resp.user_id

C32_StrictlyBefore ==
    (resp.op = "verify_otp" /\ resp.result) =>
        LET i == FindByEmail(users, resp.email) IN
        /\ i # 0
        /\ users[i].temp_password # NoHash
        /\ users[i].otp_expiration # 0
        /\ resp.at < users[i].otp_expiration

=============================================================================
